---- MODULE Spec2Model ----
(***************************************************************************)
(* State-machine model of src/Sunshine.py: class SunshineDistributor       *)
(* (__init__, load_data, _distribute_sub_group, run, export_excel) and the *)
(* __main__ driver.                                                        *)
(*                                                                         *)
(* Column names of the spreadsheet are written in ASCII:                   *)
(*   "name" = 姓名, "gender" = 性别, "score" = 总分, "origin" = 城乡,      *)
(*   "class" = 班级, "rank" = 年级排名;                                    *)
(*   gender "M" = 男, "F" = 女; origin "Urban" = 城区, "Rural" = 乡下.     *)
(***************************************************************************)
EXTENDS Integers, Sequences, FiniteSets, TLC

VARIABLES
    K,              \* self.K
    top_N,          \* self.top_N
    bot_N,          \* self.bot_N
    required_cols,  \* self.required_cols (a list: load_data appends to it)
    has_rural,      \* self.has_rural
    tieOrder,       \* what this build's sort_values(kind='quicksort') does with equal keys
    calls,          \* the run(file_path) calls still to be made on the instance
    file,           \* the file of the call in progress (the most recently loaded one)
    reseed,         \* whether the caller seeded the generator as for the previous call
    pc,             \* position in run()/__main__
    df,             \* run's df
    layers,         \* run's layers = [df_top, df_mid, df_bot]
    layer_i,        \* index of the layer the for loop is at
    group_i,        \* index of the group the inner for loop is at
    sub_df,         \* the argument of the latest _distribute_sub_group call
    assigned_list,  \* run's assigned_list
    result,         \* what run() returned (<<>> before it returns)
    tape,           \* the generator's stream of shuffles, as far as it has been drawn
    pos,            \* how many shuffles were drawn since the generator was seeded
    error,          \* how the process ended, "none" while it has not
    written,        \* whether export_excel wrote the output file
    prev            \* the previous call on this instance: its file and result

vars == <<K, top_N, bot_N, required_cols, has_rural, tieOrder, calls, file, reseed,
          pc, df, layers, layer_i, group_i, sub_df, assigned_list, result, tape, pos,
          error, written, prev>>

(***************************************************************************)
(* Bounds of the model.                                                    *)
(***************************************************************************)
MaxK == 3
MaxQuota == 1
MaxLen == 3
MaxRuralLen == 2
MaxSeqLen == 1
MaxSub == 7

(***************************************************************************)
(* Program constants.                                                      *)
(***************************************************************************)
DefaultTopN == 10
DefaultBotN == 10

\* The scores a sheet holds: two values, so that rosters have ties.
Scores == {1, 2}
\* The class counts run() is called with (MaxK bounds the class count of
\* _distribute_sub_group called on its own).
ClassCounts == {1, 2}
Genders == {"M", "F", "Other"}
Origins == {"Urban", "Rural"}
BaseCols == <<"name", "gender", "score">>

Range(s) == {s[i] : i \in 1..Len(s)}

Reverse(s) == [i \in 1..Len(s) |-> s[Len(s) + 1 - i]]

Min(a, b) == IF a < b THEN a ELSE b

Max(a, b) == IF a < b THEN b ELSE a

RECURSIVE Flatten(_)
Flatten(frames) ==
    IF frames = <<>> THEN <<>> ELSE Head(frames) \o Flatten(Tail(frames))

(***************************************************************************)
(* Python's slices df.iloc[:stop], df.iloc[start:] and                     *)
(* df.iloc[start:stop]: a negative index counts from the end, an index     *)
(* past either end is clipped, and -0 is 0.                                *)
(***************************************************************************)
SliceIndex(i, n) ==
    IF i < 0 THEN Max(n + i, 0) ELSE Min(i, n)

ILocTo(frame, stop) ==
    SubSeq(frame, 1, SliceIndex(stop, Len(frame)))

ILocFrom(frame, start) ==
    SubSeq(frame, SliceIndex(start, Len(frame)) + 1, Len(frame))

ILoc(frame, start, stop) ==
    SubSeq(frame, SliceIndex(start, Len(frame)) + 1, SliceIndex(stop, Len(frame)))

(***************************************************************************)
(* DataFrame.sort_values(by='score', ascending=False): an insertion of     *)
(* each row into the rows sorted so far.  The default kind='quicksort' is  *)
(* not a stable sort: rows of equal score come out in an order the build   *)
(* decides ("kept": input order, "reversed": the opposite).                *)
(***************************************************************************)
InsertDesc(r, sorted, tie) ==
    LET before == {i \in 1..Len(sorted) :
                      \/ sorted[i].score > r.score
                      \/ sorted[i].score = r.score /\ tie = "kept"}
        p == Cardinality(before)
    IN  SubSeq(sorted, 1, p) \o <<r>> \o SubSeq(sorted, p + 1, Len(sorted))

RECURSIVE SortInto(_, _, _)
SortInto(frame, sorted, tie) ==
    IF frame = <<>> THEN sorted
    ELSE SortInto(Tail(frame), InsertDesc(Head(frame), sorted, tie), tie)

SortValuesDesc(frame, tie) == SortInto(frame, <<>>, tie)

(***************************************************************************)
(* Series.rank(method='min', ascending=False).astype(int): the values are  *)
(* put in descending order, numbered from 1, and each row gets the         *)
(* smallest number among the rows holding its value.                       *)
(***************************************************************************)
\* A faulty RankMin: rank(method='first'), which numbers tied rows apart.
RankFirst(frame) ==
    LET sorted == SortValuesDesc(frame, "kept")
    IN  [i \in 1..Len(frame) |->
            CHOOSE p \in 1..Len(sorted) : sorted[p].name = frame[i].name]

RankMin(frame) ==
    LET sorted == SortValuesDesc(frame, "kept")
    IN  [i \in 1..Len(frame) |->
            CHOOSE p \in 1..Len(sorted) :
                /\ sorted[p].score = frame[i].score
                /\ \A q \in 1..(p - 1) : sorted[q].score # frame[i].score]

WithRank(frame) ==
    LET rk == RankMin(frame)
    IN  [i \in 1..Len(frame) |-> [frame[i] EXCEPT !.rank = rk[i]]]

(***************************************************************************)
(* random.shuffle(list(range(1, K + 1))): any ordering of 1..K.  The       *)
(* generator's stream is a tape that is revealed as it is drawn: a         *)
(* generator seeded as before replays the tape from its start.             *)
(***************************************************************************)
Perms(k) ==
    {p \in [1..k -> 1..k] : \A i, j \in 1..k : p[i] = p[j] => i = j}

\* A faulty ShuffleChoices: a shuffle drawn from a source the seed does not
\* reach (random.SystemRandom).
ShuffleUnseeded(k, tp, ps) == Perms(k)

ShuffleChoices(k, tp, ps) ==
    IF ps < Len(tp) THEN {tp[ps + 1]} ELSE Perms(k)

(***************************************************************************)
(* _distribute_sub_group, lines 71-75: the while loop that builds          *)
(* snake_pattern.                                                          *)
(***************************************************************************)
RECURSIVE SnakeLoop(_, _, _)
SnakeLoop(snake_pattern, class_indices, n) ==
    IF Len(snake_pattern) < n
    THEN SnakeLoop(snake_pattern \o class_indices \o Reverse(class_indices),
                   class_indices, n)
    ELSE snake_pattern

\* A faulty SnakePattern: the reversed pass leaves out the class at the
\* turn (class_indices[::-1][1:]).
RECURSIVE SnakeLoopSkipTurn(_, _, _)
SnakeLoopSkipTurn(snake_pattern, class_indices, n) ==
    IF Len(snake_pattern) < n
    THEN SnakeLoopSkipTurn(
             snake_pattern \o class_indices \o Tail(Reverse(class_indices)),
             class_indices, n)
    ELSE snake_pattern

SnakePatternSkipTurn(class_indices, n) == SnakeLoopSkipTurn(<<>>, class_indices, n)

SnakePattern(class_indices, n) == SnakeLoop(<<>>, class_indices, n)

(***************************************************************************)
(* _distribute_sub_group after the emptiness test: the sorted sub-frame    *)
(* with its class column set to snake_pattern[:len(sub_df)].               *)
(***************************************************************************)
AssignClasses(sub, class_indices, tie) ==
    LET sorted == SortValuesDesc(sub, tie)
        snake_pattern == SnakePattern(class_indices, Len(sorted))
        cut == ILocTo(snake_pattern, Len(sorted))
    IN  [i \in 1..Len(sorted) |-> [sorted[i] EXCEPT !.class = cut[i]]]

DistributeSubGroup(sub, assigned, class_indices, tie) ==
    IF sub = <<>> THEN assigned
    ELSE Append(assigned, AssignClasses(sub, class_indices, tie))

(***************************************************************************)
(* run, lines 107-122: the groups of one layer.                            *)
(***************************************************************************)
Filter2(layer, g) == SelectSeq(layer, LAMBDA r : r.gender = g)

Filter4(layer, g, o) == SelectSeq(layer, LAMBDA r : r.gender = g /\ r.origin = o)

Groups(layer, rural) ==
    IF rural
    THEN << Filter4(layer, "M", "Urban"), Filter4(layer, "M", "Rural"),
            Filter4(layer, "F", "Urban"), Filter4(layer, "F", "Rural") >>
    ELSE << Filter2(layer, "M"), Filter2(layer, "F") >>

(***************************************************************************)
(* run, lines 96-104: the three layers.                                    *)
(***************************************************************************)
Layers(frame, topN, botN) ==
    << ILocTo(frame, topN), ILoc(frame, topN, -botN), ILocFrom(frame, -botN) >>

\* A faulty Insufficient: the test forgets the bottom quota.
InsufficientTopOnly(frame, topN, botN) == Len(frame) < topN

Insufficient(frame, topN, botN) == Len(frame) < topN + botN

(***************************************************************************)
(* run, line 132: sort_values(by=['class', 'score'],                       *)
(* ascending=[True, False]); a sort on several keys is a lexsort, which    *)
(* keeps the order of rows equal in both.                                  *)
(***************************************************************************)
InsertByClass(r, sorted) ==
    LET before == {i \in 1..Len(sorted) :
                      \/ sorted[i].class < r.class
                      \/ sorted[i].class = r.class /\ sorted[i].score >= r.score}
        p == Cardinality(before)
    IN  SubSeq(sorted, 1, p) \o <<r>> \o SubSeq(sorted, p + 1, Len(sorted))

RECURSIVE SortByClassInto(_, _)
SortByClassInto(frame, sorted) ==
    IF frame = <<>> THEN sorted
    ELSE SortByClassInto(Tail(frame), InsertByClass(Head(frame), sorted))

SortByClassScore(frame) == SortByClassInto(frame, <<>>)

(***************************************************************************)
(* load_data, lines 46-52: pd.to_numeric(errors='coerce') turns a cell     *)
(* that is no number into NaN and dropna drops its row.  A cell is <<v>>   *)
(* when it holds the number v and <<>> when it holds anything else.  (A    *)
(* class or rank column of the sheet is dropped at lines 42-44 and         *)
(* computed anew; the rows of the model carry none.)                       *)
(***************************************************************************)
IsNumber(cell) == Len(cell) = 1

Clean(rows) ==
    LET kept == SelectSeq(rows, LAMBDA r : IsNumber(r.cell))
    IN  [i \in 1..Len(kept) |->
            [name |-> kept[i].name, gender |-> kept[i].gender,
             score |-> kept[i].cell[1], origin |-> kept[i].origin,
             rank |-> 0, class |-> 0]]

(***************************************************************************)
(* load_data, lines 26-34: the flag, the required columns and the missing  *)
(* ones.                                                                   *)
(***************************************************************************)
RuralAfter(rural, cols) == IF "origin" \in cols THEN TRUE ELSE rural

RequiredAfter(required, cols) ==
    IF "origin" \in cols THEN Append(required, "origin") ELSE required

MissingCols(required, cols) == {c \in Range(required) : c \notin cols}

(***************************************************************************)
(* The input files.  A row is its position in the sheet (standing for the  *)
(* name), its gender, its score cell and its origin ("none" when the sheet *)
(* has no origin column).  load_data checks neither the gender nor the     *)
(* origin values, so a gender outside the two literals is an input; a file *)
(* holds at most one row with an unusable score or gender.                 *)
(***************************************************************************)
Cells == {<<v>> : v \in Scores} \cup {<<>>}

BadRow(r) == r.gender = "Other" \/ ~IsNumber(r.cell)

RowsOf(n, gs, cs, os) ==
    {[i \in 1..n |-> [name |-> i, gender |-> k[i].gender, cell |-> k[i].cell,
                      origin |-> k[i].origin]] :
        k \in [1..n -> [gender : gs, cell : cs, origin : os]]}

AtMostOneBad(rows) ==
    Cardinality({i \in 1..Len(rows) : BadRow(rows[i])}) <= 1

PlainFiles(maxLen) ==
    {[exists |-> TRUE, cols |-> Range(BaseCols), rows |-> rows] :
        rows \in {r \in UNION {RowsOf(n, Genders, Cells, {"none"}) : n \in 0..maxLen} :
                     AtMostOneBad(r)}}

RuralFiles(maxLen) ==
    {[exists |-> TRUE, cols |-> Range(BaseCols) \cup {"origin"}, rows |-> rows] :
        rows \in UNION {RowsOf(n, {"M", "F"}, {<<v>> : v \in Scores}, Origins) :
                          n \in 0..maxLen}}

NoSuchFile == [exists |-> FALSE, cols |-> {}, rows |-> <<>>]

NoGenderFile == [exists |-> TRUE, cols |-> {"name", "score"}, rows |-> <<>>]

Files(maxLen, maxRural) ==
    PlainFiles(maxLen) \cup RuralFiles(maxRural) \cup {NoSuchFile, NoGenderFile}

NoCall == [file |-> NoSuchFile, result |-> <<>>]

(***************************************************************************)
(* __init__ (lines 9-15) and the state before the first call.              *)
(***************************************************************************)
Construct(ks) ==
    /\ K \in ks
    /\ \E top_n_per_class, bottom_n_per_class \in 0..MaxQuota :
          /\ top_N = top_n_per_class * K
          /\ bot_N = bottom_n_per_class * K
    /\ required_cols = BaseCols
    /\ has_rural = FALSE

Idle ==
    /\ tieOrder \in {"kept", "reversed"}
    /\ file = NoSuchFile
    /\ reseed = FALSE
    /\ pc = "idle"
    /\ df = <<>>
    /\ layers = <<>>
    /\ layer_i = 0
    /\ group_i = 0
    /\ sub_df = <<>>
    /\ assigned_list = <<>>
    /\ result = <<>>
    /\ tape = <<>>
    /\ pos = 0
    /\ error = "none"
    /\ written = FALSE
    /\ prev = NoCall

\* One run(file_path) call on a fresh instance, as __main__ makes it.
Init ==
    /\ Construct(ClassCounts)
    /\ Idle
    /\ calls \in {<<[file |-> f, reseed |-> FALSE]>> : f \in Files(MaxLen, MaxRuralLen)}

\* run() twice on the same file, the generator seeded the same way both times.
InitTwice ==
    /\ Construct(ClassCounts)
    /\ Idle
    /\ calls \in {<<[file |-> f, reseed |-> FALSE], [file |-> f, reseed |-> TRUE]>> :
                     f \in Files(MaxLen - 1, MaxRuralLen)}

\* Two run() calls on one instance, on any two files.
InitSeq ==
    /\ Construct(ClassCounts)
    /\ Idle
    /\ calls \in {<<[file |-> f, reseed |-> FALSE], [file |-> g, reseed |-> FALSE]>> :
                     f, g \in Files(MaxSeqLen, MaxSeqLen)}

(***************************************************************************)
(* How the process ends: sys.exit(1) or an exception nobody catches.       *)
(***************************************************************************)
Exit(why) ==
    /\ pc' = "exit"
    /\ error' = why

(***************************************************************************)
(* run, line 83, and load_data, lines 17-59.  The caller has seeded the    *)
(* generator: as for the previous call (the tape is replayed) or not.      *)
(***************************************************************************)
RunLoadData ==
    /\ pc = "idle"
    /\ calls # <<>>
    /\ LET call == Head(calls)
           f == call.file
       IN  /\ calls' = Tail(calls)
           /\ file' = f
           /\ reseed' = call.reseed
           /\ prev' = [file |-> file, result |-> result]
           /\ tape' = IF call.reseed THEN tape ELSE <<>>
           /\ pos' = 0
           /\ result' = <<>>
           /\ written' = FALSE
           /\ IF ~f.exists
              THEN /\ Exit("FileNotFound")
                   /\ UNCHANGED <<has_rural, required_cols, df>>
              ELSE /\ has_rural' = RuralAfter(has_rural, f.cols)
                   /\ required_cols' = RequiredAfter(required_cols, f.cols)
                   /\ IF MissingCols(required_cols', f.cols) # {}
                      THEN /\ Exit("MissingColumns")
                           /\ df' = df
                      ELSE /\ df' = Clean(f.rows)
                           /\ pc' = "loaded"
                           /\ error' = error
    /\ UNCHANGED <<K, top_N, bot_N, tieOrder, layers, layer_i, group_i, sub_df,
                   assigned_list>>

(***************************************************************************)
(* run, lines 85-90: the grade rank, then the sort by score.               *)
(***************************************************************************)
RunRankSort ==
    /\ pc = "loaded"
    /\ df' = SortValuesDesc(WithRank(df), tieOrder)
    /\ pc' = "sorted"
    /\ UNCHANGED <<K, top_N, bot_N, required_cols, has_rural, tieOrder, calls, file,
                   reseed, layers, layer_i, group_i, sub_df, assigned_list, result,
                   tape, pos, error, written, prev>>

(***************************************************************************)
(* run, lines 92-104: the size test, then the three slices.                *)
(***************************************************************************)
RunCheckSlice ==
    /\ pc = "sorted"
    /\ IF Insufficient(df, top_N, bot_N)
       THEN /\ Exit("InsufficientData")
            /\ UNCHANGED <<layers, layer_i, group_i, assigned_list>>
       ELSE /\ layers' = Layers(df, top_N, bot_N)
            /\ assigned_list' = <<>>
            /\ layer_i' = 1
            /\ group_i' = 1
            /\ pc' = "distribute"
            /\ error' = error
    /\ UNCHANGED <<K, top_N, bot_N, required_cols, has_rural, tieOrder, calls, file,
                   reseed, df, sub_df, result, tape, pos, written, prev>>

(***************************************************************************)
(* run, lines 107-125: one pass of the inner loop, that is one             *)
(* _distribute_sub_group call (lines 61-79).  An empty group returns       *)
(* before the shuffle and draws nothing from the generator.                *)
(***************************************************************************)
DistributeCall(group) ==
    IF group = <<>>
    THEN /\ assigned_list' = DistributeSubGroup(group, assigned_list, <<>>, tieOrder)
         /\ UNCHANGED <<tape, pos>>
    ELSE \E class_indices \in ShuffleChoices(K, tape, pos) :
           /\ assigned_list' =
                  DistributeSubGroup(group, assigned_list, class_indices, tieOrder)
           /\ tape' = IF pos < Len(tape) THEN tape ELSE Append(tape, class_indices)
           /\ pos' = pos + 1

RunDistribute ==
    /\ pc = "distribute"
    /\ LET groups == Groups(layers[layer_i], has_rural)
       IN  /\ sub_df' = groups[group_i]
           /\ DistributeCall(groups[group_i])
           /\ IF group_i < Len(groups)
              THEN /\ group_i' = group_i + 1
                   /\ UNCHANGED <<layer_i, pc>>
              ELSE /\ group_i' = 1
                   /\ layer_i' = layer_i + 1
                   /\ pc' = IF layer_i < Len(layers) THEN pc ELSE "concat"
    /\ UNCHANGED <<K, top_N, bot_N, required_cols, has_rural, tieOrder, calls, file,
                   reseed, df, layers, result, error, written, prev>>

(***************************************************************************)
(* run, lines 127-139: pd.concat raises ValueError on an empty list; the   *)
(* result is sorted by class, then by score.                               *)
(***************************************************************************)
RunConcat ==
    /\ pc = "concat"
    /\ IF assigned_list = <<>>
       THEN /\ Exit("ValueError")
            /\ result' = result
       ELSE /\ result' = SortByClassScore(Flatten(assigned_list))
            /\ pc' = "returned"
            /\ error' = error
    /\ UNCHANGED <<K, top_N, bot_N, required_cols, has_rural, tieOrder, calls, file,
                   reseed, df, layers, layer_i, group_i, sub_df, assigned_list, tape,
                   pos, written, prev>>

(***************************************************************************)
(* __main__, line 225, and export_excel, lines 141-181: the file is        *)
(* written unless it is open elsewhere (PermissionError, reported).        *)
(***************************************************************************)
ExportExcel ==
    /\ pc = "returned"
    /\ \E locked \in BOOLEAN : written' = ~locked
    /\ pc' = "idle"
    /\ UNCHANGED <<K, top_N, bot_N, required_cols, has_rural, tieOrder, calls, file,
                   reseed, df, layers, layer_i, group_i, sub_df, assigned_list, result,
                   tape, pos, error, prev>>

Next ==
    \/ RunLoadData
    \/ RunRankSort
    \/ RunCheckSlice
    \/ RunDistribute
    \/ RunConcat
    \/ ExportExcel

Spec == Init /\ [][Next]_vars

SpecTwice == InitTwice /\ [][Next]_vars

SpecSeq == InitSeq /\ [][Next]_vars

(***************************************************************************)
(* _distribute_sub_group (lines 61-79) called on its own, on any frame.    *)
(***************************************************************************)
SubFrames(maxLen) ==
    UNION {{[i \in 1..n |-> [name |-> i, gender |-> "M", score |-> sc[i],
                              origin |-> "none", rank |-> 0, class |-> 0]] :
               sc \in [1..n -> Scores]} : n \in 0..maxLen}

InitSnake ==
    /\ Construct(1..MaxK)
    /\ tieOrder \in {"kept", "reversed"}
    /\ file = NoSuchFile
    /\ reseed = FALSE
    /\ pc = "sub_group"
    /\ df = <<>>
    /\ layers = <<>>
    /\ layer_i = 0
    /\ group_i = 0
    /\ sub_df \in SubFrames(MaxSub)
    /\ assigned_list = <<>>
    /\ result = <<>>
    /\ tape = <<>>
    /\ pos = 0
    /\ error = "none"
    /\ written = FALSE
    /\ prev = NoCall
    /\ calls = <<>>

SnakeCall ==
    /\ pc = "sub_group"
    /\ DistributeCall(sub_df)
    /\ pc' = "sub_done"
    /\ UNCHANGED <<K, top_N, bot_N, required_cols, has_rural, tieOrder, calls, file,
                   reseed, df, layers, layer_i, group_i, sub_df, result, error, written,
                   prev>>

NextSnake == SnakeCall

SpecSnake == InitSnake /\ [][NextSnake]_vars

(***************************************************************************)
(* The scenario of __main__ (line 217: the quotas are 10 and 10) with two  *)
(* classes and a roster of 40, 20 male and 20 female: the sheet is in      *)
(* score order, m of the 20 best are male, and the origin column, when the *)
(* sheet has one, says Urban for every (d+1)-th row.                       *)
(***************************************************************************)
ScenarioSize == 2 * (DefaultTopN + DefaultBotN)

ScenarioGender(i, m) ==
    LET half == ScenarioSize \div 2
    IN  IF i <= half
        THEN (IF i <= m THEN "M" ELSE "F")
        ELSE (IF i - half <= half - m THEN "M" ELSE "F")

ScenarioFile(m, d) ==
    [exists |-> TRUE,
     cols |-> IF d = 0 THEN Range(BaseCols) ELSE Range(BaseCols) \cup {"origin"},
     rows |-> [i \in 1..ScenarioSize |->
                 [name |-> i, gender |-> ScenarioGender(i, m),
                  cell |-> <<ScenarioSize + 1 - i>>,
                  origin |-> IF d = 0 THEN "none"
                             ELSE IF i % (d + 1) = 0 THEN "Urban" ELSE "Rural"]]]

ScenarioFiles ==
    {ScenarioFile(m, d) : m \in 0..(ScenarioSize \div 2), d \in 0..3}

InitScenario ==
    /\ K = 2
    /\ top_N = DefaultTopN * K
    /\ bot_N = DefaultBotN * K
    /\ required_cols = BaseCols
    /\ has_rural = FALSE
    /\ Idle
    /\ calls \in {<<[file |-> f, reseed |-> FALSE]>> : f \in ScenarioFiles}

SpecScenario == InitScenario /\ [][Next]_vars

(***************************************************************************)
(* Properties.                                                             *)
(***************************************************************************)
Names(frame) == {frame[i].name : i \in 1..Len(frame)}

Occurrences(frame, nm) == Cardinality({i \in 1..Len(frame) : frame[i].name = nm})

CountClass(frame, c) == Cardinality({i \in 1..Len(frame) : frame[i].class = c})

CountClassGender(frame, c, g) ==
    Cardinality({i \in 1..Len(frame) : frame[i].class = c /\ frame[i].gender = g})

ClassOf(frame) == {<<frame[i].name, frame[i].class>> : i \in 1..Len(frame)}

HasTie(frame) ==
    \E i, j \in 1..Len(frame) : i # j /\ frame[i].score = frame[j].score

\* C1: when run() returns, every record of the cleaned roster appears exactly
\* once in the result, with a class in 1..K.
C1_EveryStudentOnce ==
    pc = "returned" =>
        /\ \A i \in 1..Len(df) : Occurrences(result, df[i].name) = 1
        /\ \A i \in 1..Len(result) : result[i].class \in 1..K

\* C2 as stated: in the scenario (40 students, 20 male and 20 female, two
\* classes, quotas 10 and 10) each class ends with 20 students, 10 male and
\* 10 female, whatever the shuffles.
C2_TwentyTenTen ==
    pc = "returned" =>
        \A c \in 1..K :
            /\ CountClass(result, c) = ScenarioSize \div 2
            /\ CountClassGender(result, c, "M") = DefaultTopN
            /\ CountClassGender(result, c, "F") = DefaultTopN

AllGroupsEven ==
    \A l \in 1..Len(layers) :
        LET groups == Groups(layers[l], has_rural)
        IN  \A g \in 1..Len(groups) : Len(groups[g]) % 2 = 0

\* C2 amended: in the scenario, when every demographic sub-group of every
\* tier has an even number of students, each class ends with 20 students,
\* 10 male and 10 female, whatever the shuffles.
C2_TwentyTenTenWhenEven ==
    (pc = "returned" /\ AllGroupsEven) =>
        \A c \in 1..K :
            /\ CountClass(result, c) = ScenarioSize \div 2
            /\ CountClassGender(result, c, "M") = DefaultTopN
            /\ CountClassGender(result, c, "F") = DefaultTopN

\* C2's case: a scenario run has returned, every sub-group is even and one of
\* them gets a truncated snake pattern (its size is no multiple of 2K).
C2_Witness ==
    /\ pc = "returned"
    /\ AllGroupsEven
    /\ Len(result) = ScenarioSize
    /\ \E l \in 1..Len(layers) :
          \E g \in 1..Len(Groups(layers[l], has_rural)) :
              Len(Groups(layers[l], has_rural)[g]) % (2 * K) # 0

\* C3: after _distribute_sub_group, the numbers of members of the sub-group
\* assigned to any two classes differ by at most 1, and every member is
\* assigned.
C3_BalancedWithinOne ==
    pc = "sub_done" =>
        LET out == Flatten(assigned_list)
        IN  /\ Len(out) = Len(sub_df)
            /\ \A a, b \in 1..K : CountClass(out, a) - CountClass(out, b) <= 1

\* C3's case: a sub-group longer than one cycle of 2K whose length is no
\* multiple of 2K, distributed over at least two classes.
C3_Witness ==
    /\ pc = "sub_done"
    /\ K >= 2
    /\ Len(sub_df) > 2 * K
    /\ Len(sub_df) % (2 * K) # 0
    /\ Len(Flatten(assigned_list)) = Len(sub_df)

\* C4: the three tiers run() builds are pairwise disjoint, together they are
\* the roster, Top is the top_N best, Bottom the bot_N worst, Middle the rest.
C4_TiersPartition ==
    pc = "distribute" =>
        /\ Names(layers[1]) \cap Names(layers[2]) = {}
        /\ Names(layers[2]) \cap Names(layers[3]) = {}
        /\ Names(layers[1]) \cap Names(layers[3]) = {}
        /\ layers[1] \o layers[2] \o layers[3] = df
        /\ Len(layers[1]) = top_N
        /\ Len(layers[3]) = bot_N

ShortRoster == Len(df) < top_N + bot_N

\* C5: when the cleaned roster has fewer than top_N + bot_N students, run()
\* ends with the insufficient-data exit, with no tier sliced, no sub-group
\* distributed, no shuffle drawn, no result and no output file.
C5_AbortsBeforeSlicing ==
    (/\ ShortRoster
     /\ pc \notin {"idle", "loaded", "sorted"}
     /\ error \notin {"FileNotFound", "MissingColumns"}) =>
        /\ pc = "exit"
        /\ error = "InsufficientData"
        /\ layers = <<>>
        /\ sub_df = <<>>
        /\ assigned_list = <<>>
        /\ pos = 0
        /\ result = <<>>
        /\ ~written

\* C5's case: a loaded, non-empty roster that is too short, and run() has
\* exited on it.
C5_Witness ==
    /\ error = "InsufficientData"
    /\ Len(df) > 0
    /\ ShortRoster

\* C6: a run that returns on the same file as the previous returned run,
\* with the generator seeded the same way, assigns every student the same
\* class.
C6_SameSeedSameClasses ==
    (/\ pc = "returned"
     /\ reseed
     /\ prev.result # <<>>
     /\ prev.file = file) =>
        /\ ClassOf(result) = ClassOf(prev.result)
        /\ result = prev.result

\* C6's case: the second of two same-seed runs has returned, on a roster
\* with a tie, over at least two classes and at least two shuffles.
C6_Witness ==
    /\ pc = "returned"
    /\ reseed
    /\ prev.result # <<>>
    /\ prev.file = file
    /\ K >= 2
    /\ pos >= 2
    /\ HasTie(df)

Ranked ==
    \/ pc \in {"sorted", "distribute", "concat", "returned"}
    \/ error \in {"InsufficientData", "ValueError"}

\* C7: the grade rank of each student is 1 + the number of students with a
\* strictly higher score; equal scores get equal ranks, a higher score gets
\* a smaller rank, and the smallest rank is 1.
C7_RankIsMinRank ==
    Ranked =>
        /\ \A i \in 1..Len(df) :
              df[i].rank = 1 + Cardinality({j \in 1..Len(df) : df[j].score > df[i].score})
        /\ \A i, j \in 1..Len(df) :
              /\ df[i].score = df[j].score => df[i].rank = df[j].rank
              /\ df[i].score > df[j].score => df[i].rank < df[j].rank
        /\ df # <<>> => \E i \in 1..Len(df) : df[i].rank = 1
        /\ \A i \in 1..Len(df) : df[i].rank >= 1

\* C7's case: a ranked roster with two students tied above a third.
C7_Witness ==
    /\ Ranked
    /\ \E i, j, k \in 1..Len(df) :
          /\ i # j
          /\ df[i].score = df[j].score
          /\ df[i].score > df[k].score
          /\ df[k].rank = 3

\* C8: in the class sequence of a distributed sub-group, every window of 2K
\* consecutive positions inside the sub-group holds each class exactly twice.
C8_WindowsHoldTwoOfEach ==
    (pc = "sub_done" /\ assigned_list # <<>>) =>
        LET out == assigned_list[1]
        IN  \A s \in 0..(Len(out) - 2 * K) :
                \A c \in 1..K :
                    Cardinality({i \in (s + 1)..(s + 2 * K) : out[i].class = c}) = 2

\* C8's case: a distributed sub-group with a window that starts inside a
\* cycle (not at a multiple of 2K), over at least two classes.
C8_Witness ==
    /\ pc = "sub_done"
    /\ assigned_list # <<>>
    /\ K >= 2
    /\ Len(assigned_list[1]) >= 2 * K + 1

PositionOf(frame, nm) == CHOOSE i \in 1..Len(frame) : frame[i].name = nm

\* C9: _distribute_sub_group keeps students of equal score in their input
\* order, so the earlier one gets the earlier position of the snake sequence.
C9_TiesKeepInputOrder ==
    (pc = "sub_done" /\ assigned_list # <<>>) =>
        \A i, j \in 1..Len(sub_df) :
            (i < j /\ sub_df[i].score = sub_df[j].score) =>
                PositionOf(assigned_list[1], sub_df[i].name)
                    < PositionOf(assigned_list[1], sub_df[j].name)

\* C10: once a file has been loaded, has_rural says whether that file has the
\* origin column, required_cols is the base columns plus origin only when
\* it has, and a file with the base columns and no origin column is not
\* rejected for missing columns.
C10_FlagFollowsLastFile ==
    (file.exists /\ Range(BaseCols) \subseteq file.cols) =>
        /\ has_rural = ("origin" \in file.cols)
        /\ Range(required_cols) =
              Range(BaseCols) \cup (IF "origin" \in file.cols THEN {"origin"} ELSE {})
        /\ "origin" \notin file.cols => error # "MissingColumns"

====
